---- MODULE Spec2Model ----
(* node-taint-manager: the reconciliation loop of main.go, the informer     *)
(* cache it reads and the API server's node objects it patches.             *)
EXTENDS Integers, Sequences, FiniteSets, TLC

(* ---------------------------------------------------------------------- *)
(* Program constants                                                        *)
(* ---------------------------------------------------------------------- *)
TaintNodeDaemonSetNotReady == "node.vanstee.github.io/daemonset-not-ready"

JSONPatchOperationOpRemove == "remove"

\* retry.Attempts(3)
RetryAttempts == 3

(* ---------------------------------------------------------------------- *)
(* Bounds of the model                                                      *)
(* ---------------------------------------------------------------------- *)
\* writes to a node's taint list by others (kubelet, other controllers)
MaxExternal == 1

(* ---------------------------------------------------------------------- *)
(* The cluster: nodes, taints, pods                                         *)
(* ---------------------------------------------------------------------- *)
Nodes == {"n1", "n2"}

Pods == {"p1", "p2"}

GateTaint == [key |-> TaintNodeDaemonSetNotReady, value |-> ""]

\* gating taints whose value names a daemonset as <namespace>.<name>
GateTaintA == [key |-> TaintNodeDaemonSetNotReady, value |-> "kube-system.test-1"]

GateTaintB == [key |-> TaintNodeDaemonSetNotReady, value |-> "kube-system.test-2"]

OtherTaint == [key |-> "node.kubernetes.io/unschedulable", value |-> ""]

\* the tolerations of the README and of the integration test
GateToleration == [key |-> TaintNodeDaemonSetNotReady, operator |-> "Exists"]

AllToleration == [key |-> "", operator |-> "Exists"]

\* a pod as the transform of lines 101-115 keeps it: name, node, controller
\* owner kind ("None" without a controller), tolerations, Ready condition
PodOf(name, nodeName, controller, tolerations) ==
    [name |-> name, nodeName |-> nodeName, controller |-> controller,
     tolerations |-> tolerations, ready |-> FALSE]

\* the controller owner of a pod as <namespace>.<name>: the two daemonsets
\* of the integration test
OwnerOf(pod) == IF pod.name = "p1" THEN "kube-system.test-1" ELSE "kube-system.test-2"

\* the pods of the cluster, not yet ready:
\*   two daemonsets tolerating the key, both with a pod on n1;
\*   a daemonset tolerating every taint on n1, a deployment's pod on n2;
\*   one daemonset tolerating the key, a pod on each node
PodPlacements ==
    { [p \in Pods |->
          IF p = "p1" THEN PodOf("p1", "n1", "DaemonSet", <<GateToleration>>)
          ELSE PodOf("p2", "n1", "DaemonSet", <<GateToleration>>)],
      [p \in Pods |->
          IF p = "p1" THEN PodOf("p1", "n1", "DaemonSet", <<AllToleration>>)
          ELSE PodOf("p2", "n2", "ReplicaSet", <<GateToleration>>)],
      [p \in Pods |->
          IF p = "p1" THEN PodOf("p1", "n1", "DaemonSet", <<GateToleration>>)
          ELSE PodOf("p2", "n2", "DaemonSet", <<GateToleration>>)] }

\* the taints the nodes register with
InitialTaints ==
    { [n \in Nodes |-> IF n = "n1" THEN <<GateTaint, OtherTaint>> ELSE <<GateTaint>>],
      [n \in Nodes |-> IF n = "n1" THEN <<GateTaintA, GateTaintB>> ELSE <<GateTaint>>] }

\* the nodes other actors write taints to
ExternalNodes == {"n1"}

VARIABLES
    storeTaints,   \* API server: node name -> spec.taints
    cacheTaints,   \* nodesInformer indexer: node name -> Spec.Taints
    cachePods,     \* podsInformer indexer: pod name -> pod
    ctxDone,       \* ctx.Done() is closed
    pc,            \* position of main's loop: "select", "node", "patch",
                   \* "break"
    nodes,         \* nodes of the running pass (line 161)
    inode,         \* position in nodes of the node being processed
    pods,          \* pods read for the node being processed (line 180)
    bytes,         \* the marshalled patch (line 225)
    attempts,      \* attempts retry.Do has made for the node
    nodesUntainted,\* the counter of line 244
    outcome,       \* node name -> how the running pass left the node
    external       \* writes by others to taint lists so far

vars == <<storeTaints, cacheTaints, cachePods, ctxDone,
          pc, nodes, inode, pods, bytes, attempts, nodesUntainted, outcome,
          external>>

envVars == <<storeTaints, cacheTaints, cachePods, ctxDone, external>>

loopVars == <<pc, nodes, inode, pods, bytes, attempts, nodesUntainted,
              outcome>>

(* ---------------------------------------------------------------------- *)
(* Pure functions of main.go                                                *)
(* ---------------------------------------------------------------------- *)
\* the loop of lines 169-175 without its break: the last taint with the key
TaintIndexLast(taints) ==
    LET hits == {i \in 1..Len(taints) : taints[i].key = TaintNodeDaemonSetNotReady}
    IN  IF hits = {} THEN -1
        ELSE (CHOOSE i \in hits : \A j \in hits : i >= j) - 1

\* taintIndex starting at 0 instead of -1
TaintIndexFromZero(taints) ==
    LET hits == {i \in 1..Len(taints) : taints[i].key = TaintNodeDaemonSetNotReady}
    IN  IF hits = {} THEN 0
        ELSE (CHOOSE i \in hits : \A j \in hits : i <= j) - 1

\* lines 169-175: index (from 0) of the first taint with the gating key, -1
\* when there is none
TaintIndex(taints) ==
    LET hits == {i \in 1..Len(taints) : taints[i].key = TaintNodeDaemonSetNotReady}
    IN  IF hits = {} THEN -1
        ELSE (CHOOSE i \in hits : \A j \in hits : i <= j) - 1

\* every controller taken for a DaemonSet
IsDaemonSetPodAny(pod) == pod.controller # "None"

\* line 192-195
IsDaemonSetPod(pod) == pod.controller = "DaemonSet"

\* lines 196-202
ToleratedPod(pod) ==
    \E k \in 1..Len(pod.tolerations) :
        pod.tolerations[k].key = TaintNodeDaemonSetNotReady

\* line 206
IsPodReady(pod) == pod.ready

\* the loop with the readiness test the wrong way round
AllPodsReadyInverted(ps) ==
    \A pod \in ps : (IsDaemonSetPod(pod) /\ ToleratedPod(pod)) => ~IsPodReady(pod)

\* the loop with allPodsReady set by the first ready pod it meets
AllPodsReadySome(ps) ==
    \/ \A pod \in ps : ~(IsDaemonSetPod(pod) /\ ToleratedPod(pod))
    \/ \E pod \in ps : IsDaemonSetPod(pod) /\ ToleratedPod(pod) /\ IsPodReady(pod)

\* lines 186-210: the loop leaves allPodsReady true unless it meets a
\* DaemonSet pod tolerating the key that is not ready
AllPodsReady(ps) ==
    \A pod \in ps : (IsDaemonSetPod(pod) /\ ToleratedPod(pod)) => IsPodReady(pod)

\* line 128-130 and 180: the ByNodeName index of the pod cache
ByIndex(cache, nodeName) ==
    {cache[p] : p \in {q \in Pods : cache[q].nodeName = nodeName}}

Digits == <<"0", "1", "2", "3", "4", "5", "6", "7", "8", "9">>

\* fmt.Sprintf("%d", n) for n >= 0
RECURSIVE Itoa(_)
Itoa(n) ==
    IF n < 10 THEN <<Digits[n + 1]>>
    ELSE Itoa(n \div 10) \o <<Digits[(n % 10) + 1]>>

\* the remove operation sent twice in one patch
MarshalPatchTwice(taintIndex) ==
    << [op |-> JSONPatchOperationOpRemove,
        path |-> <<"spec", "taints", Itoa(taintIndex)>>],
       [op |-> JSONPatchOperationOpRemove,
        path |-> <<"spec", "taints", Itoa(taintIndex)>>] >>

\* the path counting taints from 1
MarshalPatchOneBased(taintIndex) ==
    << [op |-> JSONPatchOperationOpRemove,
        path |-> <<"spec", "taints", Itoa(taintIndex + 1)>>] >>

\* lines 218-225: one remove operation on /spec/taints/<taintIndex>
MarshalPatch(taintIndex) ==
    << [op |-> JSONPatchOperationOpRemove,
        path |-> <<"spec", "taints", Itoa(taintIndex)>>] >>

(* ---------------------------------------------------------------------- *)
(* The API server's side of Nodes().Patch(..., types.JSONPatchType, ...)    *)
(* with empty PatchOptions: RFC 6902 on the node as stored now              *)
(* ---------------------------------------------------------------------- *)
DigitValue(c) == (CHOOSE d \in 1..10 : Digits[d] = c) - 1

RECURSIVE Atoi(_)
Atoi(s) ==
    IF Len(s) = 0 THEN 0
    ELSE 10 * Atoi(SubSeq(s, 1, Len(s) - 1)) + DigitValue(s[Len(s)])

RemoveAt(taints, k) ==
    SubSeq(taints, 1, k) \o SubSeq(taints, k + 2, Len(taints))

\* the result of one operation: the new list, or an error when the path
\* names no element of the list
ApplyOperation(taints, operation) ==
    LET k == Atoi(operation.path[3])
    IN  IF operation.op = JSONPatchOperationOpRemove /\ k < Len(taints)
        THEN [err |-> FALSE, taints |-> RemoveAt(taints, k)]
        ELSE [err |-> TRUE, taints |-> taints]

\* the operations in order; the first error fails the whole patch and the
\* node is left as it was
RECURSIVE ApplyOperations(_, _)
ApplyOperations(taints, patch) ==
    IF Len(patch) = 0 THEN [err |-> FALSE, taints |-> taints]
    ELSE LET r == ApplyOperation(taints, Head(patch))
         IN  IF r.err THEN r ELSE ApplyOperations(r.taints, Tail(patch))

ApplyPatch(taints, patch) ==
    LET r == ApplyOperations(taints, patch)
    IN  IF r.err THEN [err |-> TRUE, taints |-> taints] ELSE r

(* ---------------------------------------------------------------------- *)
(* Initial state: caches synced (lines 133-141), loop at its select         *)
(* ---------------------------------------------------------------------- *)
NoOutcome == [n \in Nodes |-> "none"]

LoopInit ==
    /\ ctxDone = FALSE
    /\ pc = "select"
    /\ nodes = << >>
    /\ inode = 0
    /\ pods = {}
    /\ bytes = << >>
    /\ attempts = 0
    /\ nodesUntainted = 0
    /\ outcome = NoOutcome
    /\ external = 0

Init ==
    /\ storeTaints \in InitialTaints
    /\ cachePods \in PodPlacements
    /\ cacheTaints = storeTaints
    /\ LoopInit

(* ---------------------------------------------------------------------- *)
(* The loop of main, lines 158-249                                          *)
(* ---------------------------------------------------------------------- *)
NodeSnapshot(n) == [name |-> n, taints |-> cacheTaints[n]]

\* nodesInformer.GetIndexer().List(): the cached nodes, in no fixed order
ListNodes ==
    {s \in [1..Cardinality(Nodes) -> {NodeSnapshot(n) : n \in Nodes}] :
        \A a, b \in 1..Cardinality(Nodes) : a # b => s[a] # s[b]}

\* lines 160-162: the ticker of line 144 delivers a tick, the select takes
\* it and the nodes are listed
SelectTick ==
    /\ pc = "select"
    /\ \E list \in ListNodes : nodes' = list
    /\ inode' = 1
    /\ pc' = "node"
    /\ UNCHANGED <<envVars, pods, bytes, attempts, nodesUntainted, outcome>>

\* line 246: ctx.Done() is closed and the select takes that case
SelectDone ==
    /\ pc = "select"
    /\ ctxDone
    /\ pc' = "break"
    /\ UNCHANGED <<envVars, nodes, inode, pods, bytes, attempts,
                   nodesUntainted, outcome>>

\* line 247: the break leaves the select, not the for of line 158, which
\* goes round to the select again
Break ==
    /\ pc = "break"
    /\ pc' = "select"
    /\ UNCHANGED <<envVars, nodes, inode, pods, bytes, attempts,
                   nodesUntainted, outcome>>

\* a failure that leaves the range loop instead of going on
ContinueBreaks(name, how) ==
    /\ outcome' = [outcome EXCEPT ![name] = how]
    /\ inode' = IF how = "failed" THEN Len(nodes) + 1 ELSE inode + 1
    /\ pc' = "node"
    /\ pods' = {}
    /\ bytes' = << >>
    /\ attempts' = 0

\* the continue statements: on to the next node of the pass
Continue(name, how) ==
    /\ outcome' = [outcome EXCEPT ![name] = how]
    /\ inode' = inode + 1
    /\ pc' = "node"
    /\ pods' = {}
    /\ bytes' = << >>
    /\ attempts' = 0

\* lines 164-228 for the node at inode: find the taint, read its pods,
\* decide, build the patch
ProcessNode ==
    /\ pc = "node"
    /\ inode <= Len(nodes)
    /\ LET node == nodes[inode]
           taintIndex == TaintIndex(node.taints)
           ps == ByIndex(cachePods, node.name)
       IN  IF taintIndex = -1
           THEN Continue(node.name, "no-taint")
           ELSE IF ~AllPodsReady(ps)
           THEN Continue(node.name, "not-ready")
           ELSE /\ pods' = ps
                /\ bytes' = MarshalPatch(taintIndex)
                /\ attempts' = 0
                /\ pc' = "patch"
                /\ UNCHANGED <<inode, outcome>>
    /\ UNCHANGED <<envVars, nodes, nodesUntainted>>

\* the counter incremented after retry.Do has given up
FailedCounts(name) ==
    /\ IF attempts + 1 >= RetryAttempts
       THEN Continue(name, "failed") /\ nodesUntainted' = nodesUntainted + 1
       ELSE /\ attempts' = attempts + 1
            /\ UNCHANGED <<pc, inode, outcome, pods, bytes, nodesUntainted>>
    /\ UNCHANGED storeTaints

\* retry.Do giving up one attempt late
FailedOneMore(name) ==
    /\ IF attempts + 1 > RetryAttempts
       THEN Continue(name, "failed")
       ELSE /\ attempts' = attempts + 1
            /\ UNCHANGED <<pc, inode, outcome, pods, bytes>>
    /\ UNCHANGED <<storeTaints, nodesUntainted>>

\* retry.Do after a failed attempt: again unless the attempts are used up
Failed(name) ==
    /\ IF attempts + 1 >= RetryAttempts
       THEN Continue(name, "failed")
       ELSE /\ attempts' = attempts + 1
            /\ UNCHANGED <<pc, inode, outcome, pods, bytes>>
    /\ UNCHANGED <<storeTaints, nodesUntainted>>

\* lines 230-244: one attempt of retry.Do, the same bytes every time
PatchNode ==
    /\ pc = "patch"
    /\ LET name == nodes[inode].name
           r == ApplyPatch(storeTaints[name], bytes)
       IN  \/ \* the request fails: ctx is cancelled, the server is not
              \* reached, or it answers with an error
              /\ Failed(name)
           \/ \* the request reaches the server, which applies the patch to
              \* the node as it is now or rejects it
              /\ ~ctxDone
              /\ IF r.err
                 THEN Failed(name)
                 ELSE /\ storeTaints' = [storeTaints EXCEPT ![name] = r.taints]
                      /\ nodesUntainted' = nodesUntainted + 1
                      /\ Continue(name, "patched")
    /\ UNCHANGED <<cacheTaints, cachePods, ctxDone, nodes, external>>

\* line 163: the range is used up, back to the select
EndPass ==
    /\ pc = "node"
    /\ inode > Len(nodes)
    /\ pc' = "select"
    /\ nodes' = << >>
    /\ inode' = 0
    /\ outcome' = NoOutcome
    /\ UNCHANGED <<envVars, pods, bytes, attempts, nodesUntainted>>

(* ---------------------------------------------------------------------- *)
(* What runs beside the loop                                                *)
(* ---------------------------------------------------------------------- *)
\* line 64: os.Interrupt cancels ctx
Interrupt ==
    /\ ~ctxDone
    /\ ctxDone' = TRUE
    /\ UNCHANGED <<storeTaints, cacheTaints, cachePods, external, loopVars>>

\* somebody else adds a taint to a node or takes one off
ExternalWrite ==
    /\ external < MaxExternal
    /\ external' = external + 1
    /\ \E n \in ExternalNodes :
          \/ \E t \in {GateTaint, OtherTaint} :
                storeTaints' = [storeTaints EXCEPT ![n] = Append(@, t)]
          \/ \E k \in 0..(Len(storeTaints[n]) - 1) :
                storeTaints' = [storeTaints EXCEPT ![n] = RemoveAt(@, k)]
    /\ UNCHANGED <<cacheTaints, cachePods, ctxDone, loopVars>>

\* the node informer takes in a node's present state (lines 91-100)
NodeCacheUpdate ==
    /\ \E n \in Nodes :
          /\ cacheTaints[n] # storeTaints[n]
          /\ cacheTaints' = [cacheTaints EXCEPT ![n] = storeTaints[n]]
    /\ UNCHANGED <<storeTaints, cachePods, ctxDone, external, loopVars>>

\* the pod informer takes in a pod whose Ready condition has changed
\* (lines 101-115)
PodCacheUpdate ==
    /\ \E p \in Pods :
          cachePods' = [cachePods EXCEPT ![p].ready = ~@]
    /\ UNCHANGED <<storeTaints, cacheTaints, ctxDone, external, loopVars>>

Next ==
    \/ SelectTick
    \/ SelectDone
    \/ Break
    \/ ProcessNode
    \/ PatchNode
    \/ EndPass
    \/ Interrupt
    \/ ExternalWrite
    \/ NodeCacheUpdate
    \/ PodCacheUpdate

Spec == Init /\ [][Next]_vars

\* one daemonset with a pod on each node, two gating taints on n1, n2
\* registered without taints
LiveInit ==
    /\ storeTaints = [n \in Nodes |->
                         IF n = "n1" THEN <<GateTaint, GateTaintB>> ELSE << >>]
    /\ cachePods = [p \in Pods |->
                       IF p = "p1" THEN PodOf("p1", "n1", "DaemonSet", <<GateToleration>>)
                       ELSE PodOf("p2", "n2", "DaemonSet", <<GateToleration>>)]
    /\ cacheTaints = storeTaints
    /\ LoopInit

\* a Patch call that the server applies to node n
PatchApplied(n) == PatchNode /\ storeTaints'[n] # storeTaints[n]

\* the ticker keeps ticking and main keeps running; the node informer
\* catches up with the store; a node whose patch can be applied again and
\* again does not meet a failing request every time
Fairness ==
    /\ WF_vars(SelectTick)
    /\ WF_vars(SelectDone)
    /\ WF_vars(Break)
    /\ WF_vars(ProcessNode)
    /\ WF_vars(PatchNode)
    /\ WF_vars(EndPass)
    /\ WF_vars(NodeCacheUpdate)
    /\ \A n \in Nodes : SF_vars(PatchApplied(n))

LiveSpec == LiveInit /\ [][Next]_vars /\ Fairness

(* ---------------------------------------------------------------------- *)
(* Startup, lines 133-141: main waits in WaitForCacheSync for the two       *)
(* informers of the factory, then enters the loop or dies                   *)
(* ---------------------------------------------------------------------- *)
\* main inside factory.WaitForCacheSync, by the informers whose HasSynced
\* already answers true
SyncPositions == {"sync:", "sync:nodes", "sync:pods", "sync:nodes,pods"}

\* the position after informer t has synced
WithSynced(position, t) ==
    IF position = "sync:" THEN (IF t = "nodes" THEN "sync:nodes" ELSE "sync:pods")
    ELSE IF position = "sync:nodes" /\ t = "pods" THEN "sync:nodes,pods"
    ELSE IF position = "sync:pods" /\ t = "nodes" THEN "sync:nodes,pods"
    ELSE position

\* line 139 taken as if it only logged
SyncFailedProceeds ==
    /\ pc \in SyncPositions \ {"sync:nodes,pods"}
    /\ ctxDone
    /\ pc' = "select"
    /\ UNCHANGED <<envVars, nodes, inode, pods, bytes, attempts, nodesUntainted, outcome>>

\* line 134: the informers run until ctx.Done() is closed; one of them
\* finishes its initial list
InformerSynced ==
    /\ pc \in SyncPositions
    /\ ~ctxDone
    /\ \E t \in {"nodes", "pods"} :
          /\ WithSynced(pc, t) # pc
          /\ pc' = WithSynced(pc, t)
    /\ UNCHANGED <<envVars, nodes, inode, pods, bytes, attempts, nodesUntainted, outcome>>

\* lines 135-144: every informer reported true; the ticker is created and
\* main enters the loop
SyncSucceeded ==
    /\ pc = "sync:nodes,pods"
    /\ pc' = "select"
    /\ UNCHANGED <<envVars, nodes, inode, pods, bytes, attempts, nodesUntainted, outcome>>

\* lines 135-140: ctx.Done() was closed before an informer had synced, its
\* entry in the result is false and log.Fatalf ends the process
SyncFailed ==
    /\ pc \in SyncPositions \ {"sync:nodes,pods"}
    /\ ctxDone
    /\ pc' = "fatal"
    /\ UNCHANGED <<envVars, nodes, inode, pods, bytes, attempts, nodesUntainted, outcome>>

\* the process at line 134, no informer synced yet: two daemonsets with a
\* pod on n1, two gating taints on n1, one on n2
StartInit ==
    /\ storeTaints = [n \in Nodes |->
                         IF n = "n1" THEN <<GateTaintA, GateTaintB>> ELSE <<GateTaint>>]
    /\ cachePods = [p \in Pods |-> PodOf(p, "n1", "DaemonSet", <<GateToleration>>)]
    /\ cacheTaints = storeTaints
    /\ ctxDone = FALSE
    /\ pc = "sync:"
    /\ nodes = << >>
    /\ inode = 0
    /\ pods = {}
    /\ bytes = << >>
    /\ attempts = 0
    /\ nodesUntainted = 0
    /\ outcome = NoOutcome
    /\ external = 0

StartNext ==
    \/ InformerSynced
    \/ SyncSucceeded
    \/ SyncFailed
    \/ Next

StartSpec == StartInit /\ [][StartNext]_vars

(* ---------------------------------------------------------------------- *)
(* Properties                                                               *)
(* ---------------------------------------------------------------------- *)
HasGatingTaint(taints) ==
    \E k \in 1..Len(taints) : taints[k].key = TaintNodeDaemonSetNotReady

Qualifies(pod) ==
    /\ pod.controller = "DaemonSet"
    /\ \E k \in 1..Len(pod.tolerations) :
          pod.tolerations[k].key = TaintNodeDaemonSetNotReady

\* the pods the cache lists under a node
CachedPodsOn(n) == {cachePods[p] : p \in {q \in Pods : cachePods[q].nodeName = n}}

\* a step of main's loop, as against a step of what runs beside it
LoopStep == loopVars' # loopVars

\* the loop is about to process the node at inode
AtNode == pc = "node" /\ inode <= Len(nodes)

\* C1: a patch is submitted for a node only if every DaemonSet pod
\* tolerating the key in the pod snapshot read for it is ready; when one of
\* them is not ready the node is left without a Patch call and the store is
\* not touched.
C1_ReadyGate ==
    /\ [](pc = "patch" =>
            /\ pods = {pod \in pods : pod.nodeName = nodes[inode].name}
            /\ \A pod \in pods : Qualifies(pod) => pod.ready)
    /\ [][(AtNode /\ LoopStep
            /\ \E pod \in CachedPodsOn(nodes[inode].name) :
                  Qualifies(pod) /\ ~pod.ready)
          => (pc' = "node" /\ inode' = inode + 1 /\ storeTaints' = storeTaints)]_vars

\* Scenario B: a tainted node with two tolerating DaemonSet pods, one ready
\* and one not, has been passed over.
C1_Witness ==
    \E n \in Nodes :
        /\ outcome[n] = "not-ready"
        /\ HasGatingTaint(storeTaints[n])
        /\ \E a \in CachedPodsOn(n), b \in CachedPodsOn(n) :
              /\ Qualifies(a) /\ a.ready
              /\ Qualifies(b) /\ ~b.ready

\* C2: a node with the gating taint and no DaemonSet pod tolerating the key
\* indexed under its name gets no Patch call.
C2_NoPodsNoPatch ==
    pc = "patch" => \E pod \in pods : Qualifies(pod)

\* C3: every taint the loop removes from the store has the gating key.
C3_OnlyGatingRemoved ==
    [][\A n \in Nodes :
          (LoopStep /\ storeTaints'[n] # storeTaints[n])
          => \E k \in 1..Len(storeTaints[n]) :
                /\ storeTaints[n][k].key = TaintNodeDaemonSetNotReady
                /\ storeTaints'[n] = RemoveAt(storeTaints[n], k - 1)]_vars

\* C4: a patch computed from a snapshot that is no longer the node's taint
\* list in the store is rejected and the store is left as it is.
C4_StalePatchRejected ==
    [][(pc = "patch" /\ LoopStep
          /\ storeTaints[nodes[inode].name] # nodes[inode].taints)
       => storeTaints' = storeTaints]_vars

\* C5: a node whose tolerating DaemonSet pods are there and from some point
\* on all ready, with ctx not cancelled, eventually has no taint with the
\* gating key in the store.
C5_EventuallyUntainted ==
    \A n \in Nodes :
        <>[](/\ ~ctxDone
             /\ \E pod \in CachedPodsOn(n) : Qualifies(pod)
             /\ \A pod \in CachedPodsOn(n) : Qualifies(pod) => pod.ready)
        => <>(~HasGatingTaint(storeTaints[n]))

\* n1, which had two gating taints, has none left while its pod is ready
C5_Witness ==
    /\ ~HasGatingTaint(storeTaints["n1"])
    /\ nodesUntainted >= 2
    /\ ~ctxDone
    /\ \E pod \in CachedPodsOn("n1") : Qualifies(pod) /\ pod.ready

\* C6: once the select has taken its ctx.Done() case the loop is left: the
\* next position of main is past the for, never the select again.
C6_LoopExits ==
    [][(pc = "break" /\ pc' # pc) => pc' = "terminated"]_vars

\* C7: a node's patch is attempted at most RetryAttempts times in a pass;
\* the failure of the last attempt leaves the store as it is and takes the
\* loop to the next node, and every pass lists every node again.
C7_RetryBound ==
    /\ [](pc = "patch" => attempts < RetryAttempts)
    /\ [](pc \in {"node", "patch"} =>
            {nodes[k].name : k \in 1..Len(nodes)} = Nodes)
    /\ [][(pc = "patch" /\ LoopStep /\ attempts = RetryAttempts - 1
            /\ storeTaints' = storeTaints)
          => (pc' = "node" /\ inode' = inode + 1
              /\ outcome'[nodes[inode].name] = "failed")]_vars

\* three attempts have failed for a node, the loop has gone on and the
\* node still has its taint
C7_Witness ==
    \E n \in Nodes :
        /\ outcome[n] = "failed"
        /\ pc = "node"
        /\ HasGatingTaint(storeTaints[n])

\* C8: when an attempt has failed and another is made, the patch and the
\* readiness decision are those of the cache as it is then.
C8_RetryReevaluates ==
    [][(pc = "patch" /\ pc' = "patch" /\ attempts' > attempts)
       => LET name == nodes[inode].name
              fresh == cacheTaints'[name]
              first == {k \in 1..Len(fresh) :
                          /\ fresh[k].key = TaintNodeDaemonSetNotReady
                          /\ \A j \in 1..(k - 1) :
                                fresh[j].key # TaintNodeDaemonSetNotReady}
          IN  /\ first # {}
              /\ \A k \in first :
                    bytes' = << [op |-> "remove",
                                 path |-> <<"spec", "taints", Itoa(k - 1)>>] >>
              /\ \A pod \in CachedPodsOn(name)' : Qualifies(pod) => pod.ready]_vars

WithoutFirstGate(taints) ==
    LET first == CHOOSE k \in 1..Len(taints) :
                    /\ taints[k].key = TaintNodeDaemonSetNotReady
                    /\ \A j \in 1..(k - 1) : taints[j].key # TaintNodeDaemonSetNotReady
    IN  [i \in 1..(Len(taints) - 1) |-> IF i < first THEN taints[i] ELSE taints[i + 1]]

\* C11: a patch applied to a store list equal to the snapshot it was
\* computed from takes out the first gating taint of that list and nothing
\* else: the other taints stay, in their order, and so do the other nodes.
C11_NonDestructive ==
    [][(pc = "patch" /\ LoopStep /\ storeTaints' # storeTaints
          /\ storeTaints[nodes[inode].name] = nodes[inode].taints)
       => /\ storeTaints'[nodes[inode].name] = WithoutFirstGate(nodes[inode].taints)
          /\ \A n \in Nodes \ {nodes[inode].name} : storeTaints'[n] = storeTaints[n]]_vars

\* Scenario A: [gate, other] with a ready tolerating DaemonSet pod has
\* become [other], nobody else having written to the node
C11_Witness ==
    /\ outcome["n1"] = "patched"
    /\ storeTaints["n1"] = <<OtherTaint>>
    /\ external = 0
    /\ \E pod \in CachedPodsOn("n1") : Qualifies(pod) /\ pod.ready

\* the positions (from 1) of the gating taints whose value names a
\* daemonset with a qualifying pod among ps, all of them ready
ReadyByValue(taints, ps) ==
    { k \in 1..Len(taints) :
        /\ taints[k].key = TaintNodeDaemonSetNotReady
        /\ \E pod \in ps : Qualifies(pod) /\ OwnerOf(pod) = taints[k].value
        /\ \A pod \in ps :
              (Qualifies(pod) /\ OwnerOf(pod) = taints[k].value) => pod.ready }

\* C12: gating is per daemonset, by taint value: on a node with two gating
\* taints naming two daemonsets of which one has its pod ready, the pass
\* issues one remove operation on the position of the taint naming the
\* ready daemonset.
C12_GatedByValue ==
    [][(/\ AtNode
        /\ LoopStep
        /\ nodes[inode].taints = <<GateTaintA, GateTaintB>>
        /\ Cardinality(ReadyByValue(nodes[inode].taints, CachedPodsOn(nodes[inode].name))) = 1)
       => LET k == CHOOSE k \in ReadyByValue(nodes[inode].taints,
                                             CachedPodsOn(nodes[inode].name)) : TRUE
          IN  /\ pc' = "patch"
              /\ bytes' = << [op |-> JSONPatchOperationOpRemove,
                             path |-> <<"spec", "taints", Itoa(k - 1)>>] >>]_vars

\* the positions (from 1) of the taints with the gating key
GatingPositions(taints) ==
    { k \in 1..Len(taints) : taints[k].key = TaintNodeDaemonSetNotReady }

\* C13: for a node with two or more gating taints, all of them naming a
\* daemonset whose pods are ready, the patch holds one remove operation
\* per gating position, highest index first.
C13_AllGatesInOnePatch ==
    (/\ pc = "patch"
     /\ Cardinality(GatingPositions(nodes[inode].taints)) >= 2
     /\ GatingPositions(nodes[inode].taints) = ReadyByValue(nodes[inode].taints, pods))
    => /\ Len(bytes) = Cardinality(GatingPositions(nodes[inode].taints))
       /\ \A i \in 1..Len(bytes) : bytes[i].op = JSONPatchOperationOpRemove
       /\ { Atoi(bytes[i].path[3]) + 1 : i \in 1..Len(bytes) }
             = GatingPositions(nodes[inode].taints)
       /\ \A i, j \in 1..Len(bytes) :
             i < j => Atoi(bytes[i].path[3]) > Atoi(bytes[j].path[3])

\* C14: main leaves the wait for the caches only to the loop's select,
\* and only once both informers have synced; before that no pass runs, no
\* patch is sent and the counter stays; with ctx.Done() closed and an
\* informer not synced the process ends in log.Fatalf and stays ended.
C14_SyncedBeforeLoop ==
    [][/\ (pc \in SyncPositions /\ pc' \notin SyncPositions)
          => \/ pc = "sync:nodes,pods" /\ pc' = "select"
             \/ pc # "sync:nodes,pods" /\ ctxDone /\ pc' = "fatal"
       /\ (pc \in SyncPositions \cup {"fatal"})
          => /\ nodes' = << >>
             /\ bytes' = << >>
             /\ nodesUntainted' = 0
             /\ outcome' = NoOutcome
       /\ pc = "fatal" => pc' = "fatal"]_vars

\* an interrupt reached the process before both informers had synced: it
\* has ended without a pass
C14_Witness == pc = "fatal" /\ ctxDone /\ nodesUntainted = 0 /\ outcome = NoOutcome

\* a toleration that tolerates the gating taint for the scheduler: its key,
\* or no key with operator Exists (every taint)
ToleratesGate(toleration) ==
    \/ toleration.key = TaintNodeDaemonSetNotReady
    \/ toleration.key = "" /\ toleration.operator = "Exists"

\* C15: a DaemonSet pod configured with the README's key-less toleration
\* (operator Exists) gates its node like one naming the key: no patch is
\* sent for a node while such a pod on it is not ready.
C15_KeylessTolerationGates ==
    pc = "patch"
    => \A pod \in pods :
          (/\ pod.controller = "DaemonSet"
           /\ \E i \in 1..Len(pod.tolerations) : ToleratesGate(pod.tolerations[i]))
          => pod.ready

\* list new is list old without one of its elements
OneRemoved(old, new) ==
    /\ Len(new) = Len(old) - 1
    /\ \E k \in 1..Len(old) :
          /\ \A i \in 1..(k - 1) : new[i] = old[i]
          /\ \A i \in k..Len(new) : new[i] = old[i + 1]

\* C16: the loop only ever removes entries: a step of the loop leaves each
\* node's list in the store as it was or without one of its elements, and
\* changes one node at most, whatever the store holds by then (a snapshot
\* gone stale, an index out of range).
C16_OnlyRemoves ==
    [][LoopStep
       => /\ \A n \in Nodes :
                \/ storeTaints'[n] = storeTaints[n]
                \/ OneRemoved(storeTaints[n], storeTaints'[n])
          /\ \A n, m \in Nodes :
                (storeTaints'[n] # storeTaints[n] /\ storeTaints'[m] # storeTaints[m])
                => n = m]_vars

\* a first attempt of the patch has failed and the next one meets a list
\* that is not the snapshot's any more, the index still in range
C16_Witness ==
    /\ pc = "patch"
    /\ attempts >= 1
    /\ storeTaints[nodes[inode].name] # nodes[inode].taints
    /\ ~ApplyPatch(storeTaints[nodes[inode].name], bytes).err

\* C17: the counter of untainted nodes never decreases; it goes up by one
\* exactly in the step in which a node's patch succeeds, once for the node
\* in that pass; a node left without gating taint, not ready or with all
\* attempts failed does not count.
C17_CounterCountsPatches ==
    [][/\ nodesUntainted' \in {nodesUntainted, nodesUntainted + 1}
       /\ nodesUntainted' = nodesUntainted + 1
          <=> (pc = "patch" /\ LoopStep /\ storeTaints' # storeTaints)
       /\ nodesUntainted' = nodesUntainted + 1
          => /\ outcome[nodes[inode].name] = "none"
             /\ outcome'[nodes[inode].name] = "patched"
       /\ \A n \in Nodes :
             (outcome'[n] # outcome[n] /\ outcome'[n] \in {"no-taint", "not-ready", "failed"})
             => nodesUntainted' = nodesUntainted]_vars

\* a pass in which one node was patched and counted and the other used up
\* its attempts and was not
C17_Witness ==
    /\ nodesUntainted = 1
    /\ \E n, m \in Nodes : outcome[n] = "patched" /\ outcome[m] = "failed"

GatingCount(n) == Cardinality(GatingPositions(storeTaints[n]))

\* C19: every patch is one remove operation on the lowest position of the
\* snapshot holding the gating key; a step of the loop takes one gating
\* taint at most from a node, and a node is patched once in a pass at most,
\* so that k gating taints take k ticks with a successful patch.
C19_OneGatePerTick ==
    /\ [](pc = "patch"
          => /\ Len(bytes) = 1
             /\ bytes[1].op = JSONPatchOperationOpRemove
             /\ bytes[1].path[1] = "spec"
             /\ bytes[1].path[2] = "taints"
             /\ Atoi(bytes[1].path[3]) + 1 \in GatingPositions(nodes[inode].taints)
             /\ \A k \in GatingPositions(nodes[inode].taints) :
                   Atoi(bytes[1].path[3]) + 1 <= k)
    /\ [][LoopStep
          => \A n \in Nodes :
                /\ GatingCount(n)' >= GatingCount(n) - 1
                /\ storeTaints'[n] # storeTaints[n]
                   => /\ pc = "patch"
                      /\ n = nodes[inode].name
                      /\ outcome[n] = "none"
                      /\ outcome'[n] = "patched"]_vars

\* after one pass with a successful patch a node that had two gating
\* taints still has the second
C19_Witness ==
    /\ outcome["n1"] = "patched"
    /\ nodesUntainted >= 1
    /\ storeTaints["n1"] = <<GateTaintB>>
    /\ external = 0

====
